---------------------------- MODULE Spec2Model ----------------------------
(***************************************************************************)
(* The UTXO input of iota.go (utxo_input.go): a record referencing an      *)
(* unspent transaction output by transaction ID and output index, with its *)
(* binary codec (Serialize / Deserialize), its JSON adapter (MarshalJSON / *)
(* UnmarshalJSON) and the derived identifier (ID).                         *)
(*                                                                         *)
(* A byte is a number in 0..255, a byte slice a sequence of bytes, a Go    *)
(* string a sequence of one-character strings.  An error is the name of    *)
(* the sentinel it wraps (fmt.Errorf with %w keeps the sentinel), "nil"    *)
(* when there is none.                                                     *)
(***************************************************************************)
EXTENDS Integers, Sequences, FiniteSets, TLC

VARIABLES
    u,      \* the receiver: the caller's UTXOInput
    op,     \* the method called last
    in,     \* the arguments of that call
    out     \* what that call returned

vars == <<u, op, in, out>>

-----------------------------------------------------------------------------
(* Constants of the package *)

RefUTXOIndexMin == 0

RefUTXOIndexMax == 126

SmallTypeDenotationByteSize == 1

TransactionIDLength == 32

UInt16ByteSize == 2

UTXOInputSize == SmallTypeDenotationByteSize + TransactionIDLength + UInt16ByteSize

InputUTXO == 0

DeSeriModePerformValidation == {"PerformValidation"}

DeSeriModeNoValidation == {}

HasMode(deSeriMode, mode) == (deSeriMode \cap mode) # {}

NoError == "nil"

ErrDeserializationNotEnoughData == "ErrDeserializationNotEnoughData"

ErrDeserializationTypeMismatch == "ErrDeserializationTypeMismatch"

ErrRefUTXOIndexInvalid == "ErrRefUTXOIndexInvalid"

ErrInvalidJSON == "ErrInvalidJSON"

ErrInvalidHex == "ErrInvalidHex"

-----------------------------------------------------------------------------
(* Bounds of the model *)

\* transaction IDs are drawn from the patterns IDSample(0) .. IDSample(MaxIDSeed)
MaxIDSeed == 1

\* indices are drawn from the windows of this radius around 0, 126, 256, 65535
IdxSpan == 1

\* a buffer carries at most this many bytes after the 35 of the record
MaxTrailing == 1

-----------------------------------------------------------------------------
(* Integers and bytes *)

UInt16 == 0..(2^16 - 1)

\* binary.LittleEndian.PutUint16
PutUint16LE(v) == <<v % 256, (v \div 256) % 256>>

\* binary.LittleEndian.Uint16
Uint16LE(b) == b[1] + 256 * b[2]

-----------------------------------------------------------------------------
(* The record *)

\* the zero value of UTXOInput
ZeroUTXOInput ==
    [TransactionID |-> [i \in 1..TransactionIDLength |-> 0],
     TransactionOutputIndex |-> 0]

\* utxoInputRefBoundsValidator: the error of an index outside [Min, Max]
utxoInputRefBoundsValidator(input) ==
    IF \/ input.TransactionOutputIndex < RefUTXOIndexMin
       \/ input.TransactionOutputIndex > RefUTXOIndexMax
    THEN ErrRefUTXOIndexInvalid
    ELSE NoError

\* a variant of ID with the index in big endian
IDBigEndian(r) ==
    r.TransactionID \o
        <<(r.TransactionOutputIndex \div 256) % 256, r.TransactionOutputIndex % 256>>

\* UTXOInput.ID: the transaction ID, then the index in little endian
ID(r) == r.TransactionID \o PutUint16LE(r.TransactionOutputIndex)

-----------------------------------------------------------------------------
(* The deserializer: a cursor over the source bytes that stops at the first *)
(* error.  The targets its reads write to are fields of the receiver, kept  *)
(* in the field rcv.                                                        *)

NewDeserializer(data, rcv) ==
    [src |-> data, offset |-> 0, err |-> NoError, rcv |-> rcv]

\* AbortIf: records the error the callback returns, unless one is set
DeserializerAbortIf(d, e) ==
    IF d.err # NoError THEN d
    ELSE IF e # NoError THEN [d EXCEPT !.err = e]
    ELSE d

Remaining(d) == Len(d.src) - d.offset

Skip(d, n) ==
    IF d.err # NoError THEN d
    ELSE IF Remaining(d) < n THEN [d EXCEPT !.err = ErrDeserializationNotEnoughData]
    ELSE [d EXCEPT !.offset = d.offset + n]

\* ReadArrayOf32Bytes(&u.TransactionID, ...)
ReadArrayOf32Bytes(d) ==
    IF d.err # NoError THEN d
    ELSE IF Remaining(d) < TransactionIDLength
         THEN [d EXCEPT !.err = ErrDeserializationNotEnoughData]
    ELSE [d EXCEPT !.rcv.TransactionID =
                        SubSeq(d.src, d.offset + 1, d.offset + TransactionIDLength),
                   !.offset = d.offset + TransactionIDLength]

\* ReadNum(&u.TransactionOutputIndex, ...): a uint16 in little endian
ReadNum(d) ==
    IF d.err # NoError THEN d
    ELSE IF Remaining(d) < UInt16ByteSize
         THEN [d EXCEPT !.err = ErrDeserializationNotEnoughData]
    ELSE [d EXCEPT !.rcv.TransactionOutputIndex =
                        Uint16LE(SubSeq(d.src, d.offset + 1, d.offset + UInt16ByteSize)),
                   !.offset = d.offset + UInt16ByteSize]

\* Done: the bytes read and the error; the receiver is what the reads left
Done(d) == [u |-> d.rcv, n |-> d.offset, err |-> d.err]

checkMinByteLength(min, length) ==
    IF length < min THEN ErrDeserializationNotEnoughData ELSE NoError

checkTypeByte(data, shouldType) ==
    IF Len(data) = 0 THEN ErrDeserializationNotEnoughData
    ELSE IF data[1] # shouldType THEN ErrDeserializationTypeMismatch
    ELSE NoError

-----------------------------------------------------------------------------
(* UTXOInput.Deserialize *)

\* a variant of the first check that looks at the type byte before the length
DeserializePreChecksTypeFirst(data, deSeriMode) ==
    IF HasMode(deSeriMode, DeSeriModePerformValidation)
    THEN IF checkTypeByte(data, InputUTXO) # NoError
         THEN checkTypeByte(data, InputUTXO)
         ELSE checkMinByteLength(UTXOInputSize, Len(data))
    ELSE NoError

\* the first AbortIf: the length, then the type byte, when validating
DeserializePreChecks(data, deSeriMode) ==
    IF HasMode(deSeriMode, DeSeriModePerformValidation)
    THEN IF checkMinByteLength(UTXOInputSize, Len(data)) # NoError
         THEN checkMinByteLength(UTXOInputSize, Len(data))
         ELSE checkTypeByte(data, InputUTXO)
    ELSE NoError

\* a variant of the last check whose upper bound is exclusive
DeserializeBoundsCheckExclusive(rcv, deSeriMode) ==
    IF /\ HasMode(deSeriMode, DeSeriModePerformValidation)
       /\ rcv.TransactionOutputIndex >= RefUTXOIndexMax
    THEN ErrRefUTXOIndexInvalid
    ELSE NoError

\* the last AbortIf: the bounds of the index just read, when validating
DeserializeBoundsCheck(rcv, deSeriMode) ==
    IF HasMode(deSeriMode, DeSeriModePerformValidation)
    THEN utxoInputRefBoundsValidator(rcv)
    ELSE NoError

\* a variant that does not skip the type byte before reading the ID
DeserializeNoSkip(rcv, data, deSeriMode) ==
    LET d0 == NewDeserializer(data, rcv)
        d1 == DeserializerAbortIf(d0, DeserializePreChecks(data, deSeriMode))
        d3 == ReadArrayOf32Bytes(d1)
        d4 == ReadNum(d3)
        d5 == DeserializerAbortIf(d4, DeserializeBoundsCheck(d4.rcv, deSeriMode))
    IN  Done(d5)

\* a variant that checks the type byte after the bounds of the index
DeserializeTypeCheckLast(rcv, data, deSeriMode) ==
    LET d0 == NewDeserializer(data, rcv)
        d1 == DeserializerAbortIf(d0,
                  IF HasMode(deSeriMode, DeSeriModePerformValidation)
                  THEN checkMinByteLength(UTXOInputSize, Len(data)) ELSE NoError)
        d2 == Skip(d1, SmallTypeDenotationByteSize)
        d3 == ReadArrayOf32Bytes(d2)
        d4 == ReadNum(d3)
        d5 == DeserializerAbortIf(d4, DeserializeBoundsCheck(d4.rcv, deSeriMode))
        d6 == DeserializerAbortIf(d5,
                  IF HasMode(deSeriMode, DeSeriModePerformValidation)
                  THEN checkTypeByte(data, InputUTXO) ELSE NoError)
    IN  Done(d6)

\* a variant that reports the whole buffer as read
DeserializeCountsAll(rcv, data, deSeriMode) ==
    LET d0 == NewDeserializer(data, rcv)
        d1 == DeserializerAbortIf(d0, DeserializePreChecks(data, deSeriMode))
        d2 == Skip(d1, SmallTypeDenotationByteSize)
        d3 == ReadArrayOf32Bytes(d2)
        d4 == ReadNum(d3)
        d5 == DeserializerAbortIf(d4, DeserializeBoundsCheck(d4.rcv, deSeriMode))
    IN  [Done(d5) EXCEPT !.n = IF d5.err = NoError THEN Len(data) ELSE d5.offset]

\* the chain of Deserialize: check, skip the type, read the ID, read the
\* index, check the bounds
Deserialize(rcv, data, deSeriMode) ==
    LET d0 == NewDeserializer(data, rcv)
        d1 == DeserializerAbortIf(d0, DeserializePreChecks(data, deSeriMode))
        d2 == Skip(d1, SmallTypeDenotationByteSize)
        d3 == ReadArrayOf32Bytes(d2)
        d4 == ReadNum(d3)
        d5 == DeserializerAbortIf(d4, DeserializeBoundsCheck(d4.rcv, deSeriMode))
    IN  Done(d5)

-----------------------------------------------------------------------------
(* The serializer: a buffer that stops growing at the first error *)

NewSerializer == [buf |-> <<>>, err |-> NoError]

SerializerAbortIf(s, e) ==
    IF s.err # NoError THEN s
    ELSE IF e # NoError THEN [s EXCEPT !.err = e]
    ELSE s

\* WriteNum of a byte-sized number
WriteNumByte(s, v) ==
    IF s.err # NoError THEN s ELSE [s EXCEPT !.buf = s.buf \o <<v % 256>>]

\* WriteNum of a uint16: little endian
WriteNumUint16(s, v) ==
    IF s.err # NoError THEN s ELSE [s EXCEPT !.buf = s.buf \o PutUint16LE(v)]

WriteBytes(s, bytes) ==
    IF s.err # NoError THEN s ELSE [s EXCEPT !.buf = s.buf \o bytes]

\* Serializer.Serialize: the bytes, or nil and the error
SerializerSerialize(s) ==
    IF s.err # NoError THEN [data |-> <<>>, err |-> s.err]
    ELSE [data |-> s.buf, err |-> NoError]

-----------------------------------------------------------------------------
(* UTXOInput.Serialize *)

\* a variant of the check whose upper bound is exclusive
SerializeBoundsCheckExclusive(rcv, deSeriMode) ==
    IF /\ HasMode(deSeriMode, DeSeriModePerformValidation)
       /\ rcv.TransactionOutputIndex >= RefUTXOIndexMax
    THEN ErrRefUTXOIndexInvalid
    ELSE NoError

\* the AbortIf of Serialize: the bounds of the index, when validating
SerializeBoundsCheck(rcv, deSeriMode) ==
    IF HasMode(deSeriMode, DeSeriModePerformValidation)
    THEN utxoInputRefBoundsValidator(rcv)
    ELSE NoError

\* a variant that writes the index before the ID
SerializeIndexFirst(rcv, deSeriMode) ==
    LET s0 == NewSerializer
        s1 == SerializerAbortIf(s0, SerializeBoundsCheck(rcv, deSeriMode))
        s2 == WriteNumByte(s1, InputUTXO)
        s3 == WriteNumUint16(s2, rcv.TransactionOutputIndex)
        s4 == WriteBytes(s3, rcv.TransactionID)
    IN  SerializerSerialize(s4)

\* the chain of Serialize: check, write the type, the ID, the index
Serialize(rcv, deSeriMode) ==
    LET s0 == NewSerializer
        s1 == SerializerAbortIf(s0, SerializeBoundsCheck(rcv, deSeriMode))
        s2 == WriteNumByte(s1, InputUTXO)
        s3 == WriteBytes(s2, rcv.TransactionID)
        s4 == WriteNumUint16(s3, rcv.TransactionOutputIndex)
    IN  SerializerSerialize(s4)

-----------------------------------------------------------------------------
(* Hexadecimal and decimal text *)

HexLower == <<"0", "1", "2", "3", "4", "5", "6", "7",
              "8", "9", "a", "b", "c", "d", "e", "f">>

HexUpper == <<"0", "1", "2", "3", "4", "5", "6", "7",
              "8", "9", "A", "B", "C", "D", "E", "F">>

\* hex.EncodeToString: two lowercase digits a byte, the high nibble first
EncodeToString(bytes) ==
    [k \in 1..(2 * Len(bytes)) |->
        LET b == bytes[(k + 1) \div 2]
        IN  IF k % 2 = 1 THEN HexLower[(b \div 16) + 1] ELSE HexLower[(b % 16) + 1]]

IsHexChar(c) == \E v \in 1..16 : HexLower[v] = c \/ HexUpper[v] = c

HexValue(c) == (CHOOSE v \in 1..16 : HexLower[v] = c \/ HexUpper[v] = c) - 1

\* hex.DecodeString: an error for a text of odd length or with a character
\* that is no hex digit, of either case
DecodeString(str) ==
    IF \/ Len(str) % 2 # 0
       \/ \E k \in 1..Len(str) : ~IsHexChar(str[k])
    THEN [bytes |-> <<>>, err |-> ErrInvalidHex]
    ELSE [bytes |-> [k \in 1..(Len(str) \div 2) |->
                        16 * HexValue(str[2 * k - 1]) + HexValue(str[2 * k])],
          err |-> NoError]

Digits == <<"0", "1", "2", "3", "4", "5", "6", "7", "8", "9">>

RECURSIVE FormatNat(_)
FormatNat(n) ==
    IF n < 10 THEN <<Digits[n + 1]>>
    ELSE FormatNat(n \div 10) \o <<Digits[(n % 10) + 1]>>

IsDigit(c) == \E v \in 1..10 : Digits[v] = c

DigitValue(c) == (CHOOSE v \in 1..10 : Digits[v] = c) - 1

\* the number a short run of digits stands for (at most 9 digits)
RECURSIVE ParseNat(_)
ParseNat(str) ==
    IF Len(str) = 0 THEN 0
    ELSE 10 * ParseNat(SubSeq(str, 1, Len(str) - 1)) + DigitValue(str[Len(str)])

-----------------------------------------------------------------------------
(* A Go int has 64 bits.  It is kept as its sign and the decimal digits of  *)
(* its magnitude, without leading zeros: neg is FALSE for zero.             *)

\* int(x) of a small number
IntOf(n) == [neg |-> n < 0, mag |-> FormatNat(IF n < 0 THEN 0 - n ELSE n)]

\* the magnitudes of the largest and of the smallest int
MaxIntMag == <<"9", "2", "2", "3", "3", "7", "2", "0", "3", "6",
               "8", "5", "4", "7", "7", "5", "8", "0", "7">>

MinIntMag == <<"9", "2", "2", "3", "3", "7", "2", "0", "3", "6",
               "8", "5", "4", "7", "7", "5", "8", "0", "8">>

\* a <= b for digit runs of the same length
RECURSIVE DigitsLE(_, _)
DigitsLE(a, b) ==
    IF Len(a) = 0 THEN TRUE
    ELSE IF DigitValue(a[1]) # DigitValue(b[1])
         THEN DigitValue(a[1]) < DigitValue(b[1])
    ELSE DigitsLE(Tail(a), Tail(b))

\* a <= b for magnitudes without leading zeros
MagLE(a, b) == Len(a) < Len(b) \/ (Len(a) = Len(b) /\ DigitsLE(a, b))

\* i < n and i > n for an int i and a number n in 0 .. 10^9 - 1
IntLess(i, n) == i.neg \/ (Len(i.mag) <= 9 /\ ParseNat(i.mag) < n)

IntGreater(i, n) == ~i.neg /\ (Len(i.mag) > 9 \/ ParseNat(i.mag) > n)

\* the magnitude modulo m, digit by digit
RECURSIVE MagMod(_, _)
MagMod(mag, m) ==
    IF Len(mag) = 0 THEN 0
    ELSE (10 * MagMod(SubSeq(mag, 1, Len(mag) - 1), m) + DigitValue(mag[Len(mag)])) % m

\* uint16(x) of a Go int: the low 16 bits of its two's complement
ToUint16(i) ==
    IF i.neg THEN (2^16 - MagMod(i.mag, 2^16)) % (2^16) ELSE MagMod(i.mag, 2^16)

\* a Go int as a JSON number: decimal, with a sign when negative
FormatInt(i) == IF i.neg THEN <<"-">> \o i.mag ELSE i.mag

\* the digits of a number literal after its optional sign
LiteralBody(str) == IF Len(str) > 0 /\ str[1] = "-" THEN Tail(str) ELSE str

\* a JSON number literal without fraction or exponent: digits without a
\* leading zero, after an optional sign
IsIntLiteral(str) ==
    /\ Len(LiteralBody(str)) > 0
    /\ \A k \in 1..Len(LiteralBody(str)) : IsDigit(LiteralBody(str)[k])
    /\ (Len(LiteralBody(str)) > 1 => LiteralBody(str)[1] # "0")

\* strconv.ParseInt(..., 10, 64) accepts the literal: it is an integer
\* within the range of an int
IsIntToken(str) ==
    /\ IsIntLiteral(str)
    /\ IF str[1] = "-"
       THEN MagLE(LiteralBody(str), MinIntMag)
       ELSE MagLE(LiteralBody(str), MaxIntMag)

ParseInt(str) ==
    [neg |-> str[1] = "-" /\ LiteralBody(str) # <<"0">>, mag |-> LiteralBody(str)]

-----------------------------------------------------------------------------
(* The JSON adapter.  A JSON object is the record of its three members.  A *)
(* member is a JSON value: its kind and, for a number, the text of the     *)
(* literal, for a string, its characters.                                  *)

JNumber(text) == [kind |-> "number", text |-> text]

JString(text) == [kind |-> "string", text |-> text]

JNull == [kind |-> "null", text |-> <<>>]

\* the zero value of jsonutxoinput
ZeroJSONUTXOInput ==
    [Type |-> IntOf(0), TransactionID |-> <<>>, TransactionOutputIndex |-> IntOf(0)]

\* json.Marshal of a jsonutxoinput
JSONMarshal(j) ==
    [type |-> JNumber(FormatInt(j.Type)),
     transactionId |-> JString(j.TransactionID),
     transactionOutputIndex |-> JNumber(FormatInt(j.TransactionOutputIndex))]

\* json.Unmarshal of a value into an int member: null leaves the member as
\* it is, a number must be an integer within the range of an int
UnmarshalIntMember(v, old) ==
    IF v.kind = "null" THEN [val |-> old, err |-> NoError]
    ELSE IF v.kind = "number" /\ IsIntToken(v.text)
    THEN [val |-> ParseInt(v.text), err |-> NoError]
    ELSE [val |-> old, err |-> ErrInvalidJSON]

\* json.Unmarshal of a value into a string member
UnmarshalStringMember(v, old) ==
    IF v.kind = "null" THEN [val |-> old, err |-> NoError]
    ELSE IF v.kind = "string" THEN [val |-> v.text, err |-> NoError]
    ELSE [val |-> old, err |-> ErrInvalidJSON]

\* json.Unmarshal into a fresh jsonutxoinput: an error when a member has a
\* value its field cannot take
JSONUnmarshal(doc) ==
    LET t == UnmarshalIntMember(doc.type, ZeroJSONUTXOInput.Type)
        id == UnmarshalStringMember(doc.transactionId, ZeroJSONUTXOInput.TransactionID)
        ix == UnmarshalIntMember(doc.transactionOutputIndex,
                                 ZeroJSONUTXOInput.TransactionOutputIndex)
    IN  [j |-> [Type |-> t.val, TransactionID |-> id.val,
                TransactionOutputIndex |-> ix.val],
         err |-> IF t.err # NoError \/ id.err # NoError \/ ix.err # NoError
                 THEN ErrInvalidJSON ELSE NoError]

\* jsonutxoinput.ToSerializable: the transaction ID from its hex text, which
\* must give 32 bytes, and the index, which must lie in the bounds
ToSerializable(j) ==
    LET dec == DecodeString(j.TransactionID)
    IN  IF dec.err # NoError \/ Len(dec.bytes) # TransactionIDLength
        THEN [seri |-> ZeroUTXOInput, err |-> ErrInvalidHex]
        ELSE IF \/ IntLess(j.TransactionOutputIndex, RefUTXOIndexMin)
                \/ IntGreater(j.TransactionOutputIndex, RefUTXOIndexMax)
        THEN [seri |-> ZeroUTXOInput, err |-> ErrRefUTXOIndexInvalid]
        ELSE [seri |-> [TransactionID |-> dec.bytes,
                        TransactionOutputIndex |-> ToUint16(j.TransactionOutputIndex)],
              err |-> NoError]

\* a variant of MarshalJSON that gives the index as hex digits
MarshalJSONHexIndex(rcv) ==
    [data |-> [type |-> JNumber(FormatInt(IntOf(InputUTXO))),
               transactionId |-> JString(EncodeToString(rcv.TransactionID)),
               transactionOutputIndex |->
                   JNumber(EncodeToString(<<rcv.TransactionOutputIndex % 256>>))],
     err |-> NoError]

\* UTXOInput.MarshalJSON
MarshalJSON(rcv) ==
    [data |-> JSONMarshal([TransactionID |-> EncodeToString(rcv.TransactionID),
                           TransactionOutputIndex |-> IntOf(rcv.TransactionOutputIndex),
                           Type |-> IntOf(InputUTXO)]),
     err |-> NoError]

\* a variant of UnmarshalJSON that builds the record without ToSerializable
\* and its check of the index
UnmarshalJSONUnchecked(rcv, bytes) ==
    LET parsed == JSONUnmarshal(bytes)
        dec == DecodeString(parsed.j.TransactionID)
    IN  IF parsed.err # NoError THEN [u |-> rcv, err |-> parsed.err]
        ELSE IF dec.err # NoError \/ Len(dec.bytes) # TransactionIDLength
        THEN [u |-> rcv, err |-> ErrInvalidHex]
        ELSE [u |-> [TransactionID |-> dec.bytes,
                     TransactionOutputIndex |->
                         ToUint16(parsed.j.TransactionOutputIndex)],
              err |-> NoError]

\* UTXOInput.UnmarshalJSON: the receiver is assigned only when both steps
\* succeed
UnmarshalJSON(rcv, bytes) ==
    LET parsed == JSONUnmarshal(bytes)
        conv == ToSerializable(parsed.j)
    IN  IF parsed.err # NoError THEN [u |-> rcv, err |-> parsed.err]
        ELSE IF conv.err # NoError THEN [u |-> rcv, err |-> conv.err]
        ELSE [u |-> conv.seri, err |-> NoError]

-----------------------------------------------------------------------------
(* The inputs of the model *)

IDSample(k) == [i \in 1..TransactionIDLength |-> (17 + 37 * k * i) % 256]

IDSamples == {IDSample(k) : k \in 0..MaxIDSeed}

Window(c) == (c - IdxSpan)..(c + IdxSpan)

IndexSamples ==
    (Window(RefUTXOIndexMin) \cup Window(RefUTXOIndexMax)
        \cup Window(256) \cup Window(2^16 - 1)) \cap UInt16

TagSamples == {InputUTXO, InputUTXO + 1, 255}

Modes == {DeSeriModeNoValidation, DeSeriModePerformValidation}

RECURSIVE SeqsUpTo(_, _)
SeqsUpTo(S, n) ==
    IF n = 0 THEN {<<>>}
    ELSE LET shorter == SeqsUpTo(S, n - 1)
         IN  shorter \cup {t \o <<b>> : t \in {x \in shorter : Len(x) = n - 1}, b \in S}

Trailers == SeqsUpTo({0, 255}, MaxTrailing)

\* the buffers: a type byte, an ID, an index and trailing bytes, cut to
\* every length
FullBuffers ==
    {<<tag>> \o id \o PutUint16LE(idx) \o t :
        tag \in TagSamples, id \in IDSamples, idx \in IndexSamples, t \in Trailers}

Buffers == UNION {{SubSeq(b, 1, l) : l \in 0..Len(b)} : b \in FullBuffers}

\* the JSON objects: the ID as the hex text of a sample, in upper case, with
\* a character that is no hex digit, of 63 or 62 digits, null or a number;
\* the index as an integer around the bounds, around 2^16, at and past the
\* ends of the range of an int, as a fraction, null or a string
IDTexts ==
    {EncodeToString(id) : id \in IDSamples}
        \cup {[k \in 1..(2 * TransactionIDLength) |-> "A"]}
        \cup {[k \in 1..(2 * TransactionIDLength) |-> "g"]}
        \cup {[k \in 1..(2 * TransactionIDLength - 1) |-> "1"]}
        \cup {[k \in 1..(2 * TransactionIDLength - 2) |-> "1"]}

IDValues == {JString(t) : t \in IDTexts} \cup {JNull, JNumber(<<"1">>)}

JSONIndexSamples ==
    IndexSamples \cup ((0 - IdxSpan)..(0 - 1)) \cup Window(2^16)
        \cup {2^16 + RefUTXOIndexMax}

\* 2^32 + 126, and 10^20 - 1
BigLiterals ==
    {MaxIntMag, MinIntMag, <<"-">> \o MinIntMag,
     <<"-">> \o SubSeq(MinIntMag, 1, Len(MinIntMag) - 1) \o <<"9">>,
     <<"4", "2", "9", "4", "9", "6", "7", "4", "2", "2">>,
     [k \in 1..20 |-> "9"]}

IndexLiterals ==
    {FormatInt(IntOf(i)) : i \in JSONIndexSamples}
        \cup BigLiterals
        \cup {<<"-", "0">>, <<"1", ".", "5">>, <<"1", "2", "7", ".", "5">>}

IndexValues == {JNumber(t) : t \in IndexLiterals} \cup {JNull, JString(<<"1">>)}

TypeValues ==
    {JNumber(FormatInt(IntOf(InputUTXO))), JNumber(FormatInt(IntOf(InputUTXO + 1))),
     JNumber(MinIntMag), JNull}

JSONDocs ==
    {[type |-> t, transactionId |-> id, transactionOutputIndex |-> ix] :
        t \in TypeValues, id \in IDValues, ix \in IndexValues}

-----------------------------------------------------------------------------
(* The state machine: a caller holding one UTXOInput and calling its        *)
(* methods one at a time.  op is "idle" between calls; a call leaves its    *)
(* name in op, its arguments in in and its result in out, until the caller  *)
(* lets go of them.                                                         *)

NoArgs == [data |-> <<>>, mode |-> DeSeriModeNoValidation]

NoResult == [data |-> <<>>, n |-> 0, err |-> NoError]

Init ==
    /\ u = ZeroUTXOInput
    /\ op = "idle"
    /\ in = NoArgs
    /\ out = NoResult

\* the state: the two fields of the UTXOInput, and the call in progress
TypeOK ==
    /\ Len(u.TransactionID) = TransactionIDLength
    /\ \A i \in 1..TransactionIDLength : u.TransactionID[i] \in 0..255
    /\ u.TransactionOutputIndex \in UInt16
    /\ op \in {"idle", "ID", "Deserialize", "Serialize", "MarshalJSON", "UnmarshalJSON"}
    /\ in.mode \in Modes
    /\ out.err \in {NoError, ErrDeserializationNotEnoughData,
                     ErrDeserializationTypeMismatch, ErrRefUTXOIndexInvalid,
                     ErrInvalidJSON, ErrInvalidHex}

\* the caller builds the record from its two fields
New(id, idx) ==
    /\ op = "idle"
    /\ u' = [TransactionID |-> id, TransactionOutputIndex |-> idx]
    /\ UNCHANGED <<op, in, out>>

CallID ==
    /\ op = "idle"
    /\ op' = "ID"
    /\ in' = NoArgs
    /\ out' = [data |-> ID(u), n |-> 0, err |-> NoError]
    /\ UNCHANGED u

CallDeserialize(data, deSeriMode) ==
    /\ op = "idle"
    /\ u' = Deserialize(u, data, deSeriMode).u
    /\ op' = "Deserialize"
    /\ in' = [data |-> data, mode |-> deSeriMode]
    /\ out' = [data |-> <<>>,
               n |-> Deserialize(u, data, deSeriMode).n,
               err |-> Deserialize(u, data, deSeriMode).err]

CallSerialize(deSeriMode) ==
    /\ op = "idle"
    /\ op' = "Serialize"
    /\ in' = [data |-> <<>>, mode |-> deSeriMode]
    /\ out' = [data |-> Serialize(u, deSeriMode).data,
               n |-> 0,
               err |-> Serialize(u, deSeriMode).err]
    /\ UNCHANGED u

CallMarshalJSON ==
    /\ op = "idle"
    /\ op' = "MarshalJSON"
    /\ in' = NoArgs
    /\ out' = [data |-> MarshalJSON(u).data, n |-> 0, err |-> MarshalJSON(u).err]
    /\ UNCHANGED u

CallUnmarshalJSON(bytes) ==
    /\ op = "idle"
    /\ u' = UnmarshalJSON(u, bytes).u
    /\ op' = "UnmarshalJSON"
    /\ in' = [data |-> bytes, mode |-> DeSeriModeNoValidation]
    /\ out' = [data |-> <<>>, n |-> 0, err |-> UnmarshalJSON(u, bytes).err]

\* the caller is done with the arguments and the result of the last call;
\* the record stays as the call left it
DropResult ==
    /\ op # "idle"
    /\ op' = "idle"
    /\ in' = NoArgs
    /\ out' = NoResult
    /\ UNCHANGED u

Next ==
    \/ \E id \in IDSamples, idx \in IndexSamples : New(id, idx)
    \/ CallID
    \/ \E data \in Buffers, deSeriMode \in Modes : CallDeserialize(data, deSeriMode)
    \/ \E deSeriMode \in Modes : CallSerialize(deSeriMode)
    \/ CallMarshalJSON
    \/ \E bytes \in JSONDocs : CallUnmarshalJSON(bytes)
    \/ DropResult

Spec == Init /\ [][Next]_vars

-----------------------------------------------------------------------------
(* What the claims speak of *)

Validating(deSeriMode) == HasMode(deSeriMode, DeSeriModePerformValidation)

InBounds(idx) == idx >= RefUTXOIndexMin /\ idx <= RefUTXOIndexMax

\* the records a call may find in its receiver
Receivers ==
    {ZeroUTXOInput} \cup
        {[TransactionID |-> id, TransactionOutputIndex |-> idx] :
            id \in IDSamples, idx \in IndexSamples}

\* the fields a buffer of at least 35 bytes carries
WireTag(data) == data[1]

WireID(data) == SubSeq(data, 2, 33)

WireIndex(data) == data[34] + 256 * data[35]

-----------------------------------------------------------------------------
(* C1 *)

\* C1: a record with an index in 0..126 serializes with validation, and
\* deserializing those bytes with validation, into any receiver, succeeds
\* and gives back both fields.
C1_RoundTrip ==
    (op = "Serialize" /\ Validating(in.mode) /\ InBounds(u.TransactionOutputIndex))
        => /\ out.err = NoError
           /\ \A r \in Receivers :
                 LET d == Deserialize(r, out.data, DeSeriModePerformValidation)
                 IN  /\ d.err = NoError
                     /\ d.u.TransactionID = u.TransactionID
                     /\ d.u.TransactionOutputIndex = u.TransactionOutputIndex

C1_Witness ==
    /\ op = "Serialize"
    /\ Validating(in.mode)
    /\ u.TransactionOutputIndex = RefUTXOIndexMax
    /\ u.TransactionID = IDSample(1)
    /\ out.err = NoError
    /\ Len(out.data) > 0

-----------------------------------------------------------------------------
(* C2 *)

\* C2: with validation the index bound is inclusive at both ends, in both
\* directions: Serialize of an index above 126 fails with the index error
\* and returns no bytes; Deserialize of at least 35 bytes with the right
\* type byte and an index above 126 fails with the same error; at 0 and at
\* 126 both succeed.
C2_Bounds ==
    /\ (op = "Serialize" /\ Validating(in.mode))
          => IF InBounds(u.TransactionOutputIndex)
             THEN out.err = NoError
             ELSE out.err = ErrRefUTXOIndexInvalid /\ out.data = <<>>
    /\ (/\ op = "Deserialize"
        /\ Validating(in.mode)
        /\ Len(in.data) >= 35
        /\ WireTag(in.data) = InputUTXO)
          => IF WireIndex(in.data) > 126
             THEN out.err = ErrRefUTXOIndexInvalid
             ELSE out.err = NoError

C2_Witness ==
    /\ op = "Deserialize"
    /\ Validating(in.mode)
    /\ Len(in.data) >= 35
    /\ WireTag(in.data) = InputUTXO
    /\ WireIndex(in.data) = 127
    /\ out.err = ErrRefUTXOIndexInvalid

-----------------------------------------------------------------------------
(* C3 *)

\* C3: with validation, Deserialize of fewer than 35 bytes fails with the
\* not-enough-data error whatever the bytes are, a wrong type byte included.
C3_Truncated ==
    (op = "Deserialize" /\ Validating(in.mode) /\ Len(in.data) < 35)
        => out.err = ErrDeserializationNotEnoughData

C3_Witness ==
    /\ op = "Deserialize"
    /\ Validating(in.mode)
    /\ Len(in.data) = 34
    /\ WireTag(in.data) # InputUTXO
    /\ out.err = ErrDeserializationNotEnoughData

-----------------------------------------------------------------------------
(* C4 *)

\* C4: for at least 35 bytes with a wrong type byte, Deserialize with
\* validation fails with the type mismatch, also when the index is above
\* 126, and Deserialize without validation succeeds with the fields of
\* bytes 1..34.
C4_TypeMismatch ==
    (op = "Deserialize" /\ Len(in.data) >= 35 /\ WireTag(in.data) # InputUTXO)
        => /\ Validating(in.mode) => out.err = ErrDeserializationTypeMismatch
           /\ \A r \in Receivers :
                 LET d == Deserialize(r, in.data, DeSeriModeNoValidation)
                 IN  /\ d.err = NoError
                     /\ d.u.TransactionID = WireID(in.data)
                     /\ d.u.TransactionOutputIndex = WireIndex(in.data)

C4_Witness ==
    /\ op = "Deserialize"
    /\ Validating(in.mode)
    /\ Len(in.data) >= 35
    /\ WireTag(in.data) # InputUTXO
    /\ WireIndex(in.data) > 126
    /\ out.err = ErrDeserializationTypeMismatch

-----------------------------------------------------------------------------
(* C5 *)

\* C5: a successful Deserialize, in either mode, reports 35 bytes read, and
\* its record depends on the first 35 bytes alone: the same 35 bytes with
\* other trailing bytes decode to the same record and count.
C5_Consumed ==
    (op = "Deserialize" /\ out.err = NoError)
        => /\ out.n = 35
           /\ Len(in.data) >= 35
           /\ \A r \in Receivers, t \in Trailers :
                 LET d == Deserialize(r, SubSeq(in.data, 1, 35) \o t, in.mode)
                 IN  d.err = NoError /\ d.n = out.n /\ d.u = u

C5_Witness ==
    /\ op = "Deserialize"
    /\ out.err = NoError
    /\ Len(in.data) > 35
    /\ in.data[36] = 255
    /\ out.n = 35

-----------------------------------------------------------------------------
(* C6 *)

\* C6: Serialize succeeds with validation and an index in 0..126, and
\* without validation for any index; its output is then 35 bytes: the type
\* byte, the ID unchanged, the index in little endian; and the bytes are
\* those of the record, whatever the mode.
C6_Layout ==
    (op = "Serialize")
        => /\ (~Validating(in.mode) \/ InBounds(u.TransactionOutputIndex))
                 => out.err = NoError
           /\ out.err = NoError
                 => /\ Len(out.data) = 35
                    /\ out.data[1] = InputUTXO
                    /\ SubSeq(out.data, 2, 33) = u.TransactionID
                    /\ out.data[34] = u.TransactionOutputIndex % 256
                    /\ out.data[35] = u.TransactionOutputIndex \div 256
                    /\ \A m \in Modes :
                          Serialize(u, m).err = NoError
                              => Serialize(u, m).data = out.data

C6_Witness ==
    /\ op = "Serialize"
    /\ ~Validating(in.mode)
    /\ u.TransactionOutputIndex = 256
    /\ out.err = NoError
    /\ out.data[34] = 0
    /\ out.data[35] = 1

-----------------------------------------------------------------------------
(* C7 *)

\* C7: ID never fails, for any index: it returns 34 bytes, the ID then the
\* index in little endian, so that two records have the same ID exactly
\* when both fields are equal; and it leaves the record as it was.
C7_ID ==
    [][(op' = "ID")
          => /\ u' = u
             /\ out'.err = NoError
             /\ Len(out'.data) = 34
             /\ SubSeq(out'.data, 1, 32) = u.TransactionID
             /\ out'.data[33] = u.TransactionOutputIndex % 256
             /\ out'.data[34] = u.TransactionOutputIndex \div 256
             /\ \A r \in Receivers : (ID(r) = out'.data) <=> (r = u)]_vars

C7_Witness ==
    /\ op = "ID"
    /\ u.TransactionOutputIndex = 257
    /\ u.TransactionID = IDSample(1)
    /\ Len(out.data) = 34

C7_WitnessIndexOne ==
    /\ op = "ID"
    /\ u.TransactionOutputIndex = 1
    /\ SubSeq(out.data, 33, 34) = <<1, 0>>

-----------------------------------------------------------------------------
(* C8 *)

\* the object is well formed: a number for the type, which fits its field,
\* a string of 64 hex digits for the ID, an integer for the index
WellFormedDoc(doc) ==
    /\ doc.type.kind = "number" /\ IsIntToken(doc.type.text)
    /\ doc.transactionId.kind = "string"
    /\ DecodeString(doc.transactionId.text).err = NoError
    /\ Len(doc.transactionId.text) = 64
    /\ doc.transactionOutputIndex.kind = "number"
    /\ IsIntLiteral(doc.transactionOutputIndex.text)

\* the integer of the index member lies outside 0..126
IndexOutside(doc) ==
    \/ IntLess(ParseInt(doc.transactionOutputIndex.text), 0)
    \/ IntGreater(ParseInt(doc.transactionOutputIndex.text), 126)

\* C8: UnmarshalJSON of a well-formed object with a valid ID and an index
\* outside 0..126 fails with the index error, and no UnmarshalJSON that
\* succeeds leaves an index outside 0..126.
C8_JSONBoundsAnyInteger ==
    (op = "UnmarshalJSON")
        => /\ (WellFormedDoc(in.data) /\ IndexOutside(in.data))
                 => out.err = ErrRefUTXOIndexInvalid
           /\ out.err = NoError => InBounds(u.TransactionOutputIndex)

\* C8, amended: UnmarshalJSON of a well-formed object with a valid ID and an
\* index outside 0..126 fails: with the index error when the index is
\* within the range of an int, with the error of json.Unmarshal when it is
\* not; and no UnmarshalJSON that succeeds leaves an index outside 0..126.
C8_JSONBounds ==
    (op = "UnmarshalJSON")
        => /\ (WellFormedDoc(in.data) /\ IndexOutside(in.data))
                 => IF IsIntToken(in.data.transactionOutputIndex.text)
                    THEN out.err = ErrRefUTXOIndexInvalid
                    ELSE out.err = ErrInvalidJSON
           /\ out.err = NoError => InBounds(u.TransactionOutputIndex)

C8_Witness ==
    /\ op = "UnmarshalJSON"
    /\ WellFormedDoc(in.data)
    /\ in.data.transactionOutputIndex.text = <<"1", "2", "7">>
    /\ out.err = ErrRefUTXOIndexInvalid

\* an index past the range of an int is met as well
C8_WitnessPastInt ==
    /\ op = "UnmarshalJSON"
    /\ WellFormedDoc(in.data)
    /\ IndexOutside(in.data)
    /\ ~IsIntToken(in.data.transactionOutputIndex.text)
    /\ out.err = ErrInvalidJSON

-----------------------------------------------------------------------------
(* C9 *)

IsLowerHex(str) == \A k \in 1..Len(str) : \E v \in 1..16 : HexLower[v] = str[k]

IsDecimal(str) == Len(str) > 0 /\ \A k \in 1..Len(str) : IsDigit(str[k])

\* C9: for an index in 0..126 MarshalJSON succeeds and gives the type as an
\* integer, the ID as 64 lowercase hex digits and the index as a decimal
\* integer, and UnmarshalJSON of it, into any receiver, succeeds and sets
\* both fields to the record's.
C9_JSONRoundTrip ==
    (op = "MarshalJSON" /\ InBounds(u.TransactionOutputIndex))
        => /\ out.err = NoError
           /\ out.data.type = JNumber(FormatNat(InputUTXO))
           /\ out.data.transactionId.kind = "string"
           /\ Len(out.data.transactionId.text) = 64
           /\ IsLowerHex(out.data.transactionId.text)
           /\ DecodeString(out.data.transactionId.text).bytes = u.TransactionID
           /\ out.data.transactionOutputIndex.kind = "number"
           /\ IsDecimal(out.data.transactionOutputIndex.text)
           /\ ParseNat(out.data.transactionOutputIndex.text) = u.TransactionOutputIndex
           /\ \A r \in Receivers :
                 LET d == UnmarshalJSON(r, out.data)
                 IN  /\ d.err = NoError
                     /\ d.u.TransactionID = u.TransactionID
                     /\ d.u.TransactionOutputIndex = u.TransactionOutputIndex

C9_Witness ==
    /\ op = "MarshalJSON"
    /\ u.TransactionOutputIndex = RefUTXOIndexMax
    /\ u.TransactionID = IDSample(1)
    /\ out.data.transactionOutputIndex.text = <<"1", "2", "6">>

-----------------------------------------------------------------------------
(* C10 *)

\* C10: a Deserialize with validation that returns an error leaves both
\* fields of the receiver as they were before the call.
C10_FailedDecodeKeepsReceiver ==
    [][(op' = "Deserialize" /\ Validating(in'.mode) /\ out'.err # NoError)
          => u' = u]_vars

\* What Deserialize with validation leaves in the receiver when it fails:
\* the receiver as it was when the error is not enough data or a type
\* mismatch, the ID and the index of the rejected buffer when the error is
\* the index out of bounds.
FailedDecodeReceiver ==
    [][(op' = "Deserialize" /\ Validating(in'.mode) /\ out'.err # NoError)
          => IF out'.err = ErrRefUTXOIndexInvalid
             THEN /\ u'.TransactionID = WireID(in'.data)
                  /\ u'.TransactionOutputIndex = WireIndex(in'.data)
             ELSE /\ out'.err \in {ErrDeserializationNotEnoughData,
                                   ErrDeserializationTypeMismatch}
                  /\ u' = u]_vars

=============================================================================
